---- MODULE Spec2Model ----
(***************************************************************************)
(* Hash sets of benJames9/concurrency_cw: HashSetSequential,               *)
(* HashSetCoarseGrained, HashSetStriped and HashSetRefinable, as state     *)
(* machines.  One object of one variant exists per behaviour; `variant`    *)
(* says which.  Threads call Add/Remove/Contains; every access to shared   *)
(* memory that another thread can observe is a step of its own.            *)
(*                                                                         *)
(* Buckets are C++ vectors: sequences, order kept.  Bucket b of the code   *)
(* (0-based) is table_[b + 1] here.  A mutex is the id of its owner, 0     *)
(* when free.  set_size_ is a size_t: the variable holds the integer that  *)
(* is congruent to it modulo 2^64 and closest to 0, so a negative value    *)
(* -k stands for the wrapped value 2^64 - k (see SizeValueExceeds).        *)
(***************************************************************************)
EXTENDS Integers, Sequences, FiniteSets, TLC

\* ---------------------------------------------------------------- bounds
NumThreads == 2
MaxOps == 2
MaxInitCap == 2
PreFill == 4
NumNew == 2
MaxScenario == 21

\* program constant: const size_t bucket_capacity_ = 4
bucket_capacity_ == 4

Threads == 1..NumThreads
\* the largest size at which Policy() is false for c buckets: the next
\* successful Add makes set_size_ / c > bucket_capacity_
FullLoad(c) == (bucket_capacity_ + 1) * c - 1
\* every element that occurs in some behaviour
HistElems == 1..(FullLoad(MaxInitCap) + NumNew)
\* elements already added, one after the other, before the threads start
PreElems(k) == 1..k
Elems == 1..(PreFill + NumNew)
InitCaps == 0..MaxInitCap
Ops == {"Add", "Remove", "Contains"}

VARIABLES
  variant,           \* which class the object is
  initial_capacity,  \* the constructor's argument
  table_,            \* std::vector<std::vector<T>> table_
  set_size_,         \* set_size_ (size_t / std::atomic<size_t>)
  capacity_,         \* std::atomic<size_t> capacity_ (striped, refinable)
  mutexes_,          \* mutexes_: owner of each stripe / slot mutex
  locks_mutex_,      \* std::shared_mutex locks_mutex_ (refinable)
  mutex_,            \* std::mutex mutex_ (coarse-grained)
  fault,             \* "none", or how the process died
  pc,                \* where each thread is in its call
  op,                \* the operation a thread is in / was last in
  elem,              \* its argument
  ret,               \* its return value
  found,             \* coarse-grained: result of the unlocked Contains call
  ops_done,          \* calls a thread has completed
  old_size,          \* Resize(): local old_size
  new_table,         \* Resize(): local new_table
  nlocked,           \* AcquireAll(): mutexes locked so far
  policy_cap,        \* history: capacity at which Policy() last returned true
  lin_ret,           \* history: result of the call on the abstract set at
                     \*   the step where it takes effect
  add_true,          \* history: Add(e) calls that returned true, per e
  add_false,         \* history: Add(e) calls that returned false, per e
  rem_true,          \* history: Remove(e) calls that returned true, per e
  rehashes,          \* history: number of rehashes executed
  pre                \* history: elements present when the threads started

vars == << variant, initial_capacity, table_, set_size_, capacity_, mutexes_,
           locks_mutex_, mutex_, fault, pc, op, elem, ret, found, ops_done,
           old_size, new_table, nlocked, policy_cap, lin_ret, add_true,
           add_false, rem_true, rehashes, pre >>

\* elements the threads pass to the operations: the last one added before
\* the threads started (PreFill when fewer were added) and NumNew further ones
ThreadElems ==
  LET k == IF Cardinality(pre) > PreFill THEN Cardinality(pre) ELSE PreFill
  IN  k..(k + NumNew)

shared == << table_, set_size_, capacity_, mutexes_, locks_mutex_, mutex_ >>
hist == << policy_cap, lin_ret, add_true, add_false, rem_true, rehashes >>

\* ------------------------------------------------------ pure operators

\* std::hash<T>()(elem) for the integral T the sets are used with
Hash(e) == e

\* std::hash<T>()(elem) % n, as an index of this module (1-based)
Index(e, n) == (Hash(e) % n) + 1

EmptyTable(n) == [i \in 1..n |-> << >>]

\* mutant: the search stops one element short of bucket.end()
InBucket_OffByOne(bucket, e) == \E i \in 1..(Len(bucket) - 1) : bucket[i] = e

\* std::find(bucket.begin(), bucket.end(), elem) != bucket.end()
InBucket(bucket, e) == \E i \in 1..Len(bucket) : bucket[i] = e

\* number of times e occurs in a bucket
CountIn(bucket, e) == Cardinality({i \in 1..Len(bucket) : bucket[i] = e})

\* bucket.erase(std::remove(bucket.begin(), bucket.end(), elem), bucket.end())
EraseRemove(bucket, e) == SelectSeq(bucket, LAMBDA x : x # e)

\* the elements of buckets i, i+1, ..., in iteration order of the copy loop
RECURSIVE FlattenFrom(_, _)
FlattenFrom(tbl, i) ==
  IF i > Len(tbl) THEN << >> ELSE tbl[i] \o FlattenFrom(tbl, i + 1)

Flatten(tbl) == FlattenFrom(tbl, 1)

\* new_table[hash(elem) % new_table.size()].push_back(elem) for the elements
\* s[i], s[i+1], ...
RECURSIVE PushFrom(_, _, _)
PushFrom(s, i, nt) ==
  IF i > Len(s) THEN nt
  ELSE PushFrom(s, i + 1,
                [nt EXCEPT ![Index(s[i], Len(nt))] = Append(@, s[i])])

PushAll(s, nt) == PushFrom(s, 1, nt)

\* mutant: the copy loop takes the index modulo the old table's size
Rehash_OldModulus(tbl, new_size) ==
  [b \in 1..new_size |->
     SelectSeq(Flatten(tbl), LAMBDA x : Index(x, Len(tbl)) = b)]

\* the copy loop of Resize(): every element rehashed into new_size buckets
Rehash(tbl, new_size) == PushAll(Flatten(tbl), EmptyTable(new_size))

\* does the size_t value held in s, divided by cap, exceed bucket_capacity_?
\* a wrapped value (s < 0, that is 2^64 + s) exceeds it for every cap here
SizeValueExceeds(s, cap) ==
  IF s < 0 THEN TRUE ELSE (s \div cap) > bucket_capacity_

\* ------------------------------------------------- abstract observations
TableElems(tbl) == {Flatten(tbl)[i] : i \in 1..Len(Flatten(tbl))}
Occurrences(tbl, e) == CountIn(Flatten(tbl), e)
Stored(tbl) == Len(Flatten(tbl))


\* ------------------------------------------------ one thread, no others
\* Add(elem) run to completion with no other thread: Contains, push_back,
\* set_size_++, Policy(), Resize().  st = [table |-> ..., size |-> ...]
RunAdd(st, e) ==
  IF InBucket(st.table[Index(e, Len(st.table))], e) THEN st
  ELSE LET pushed == [st.table EXCEPT ![Index(e, Len(st.table))] = Append(@, e)]
           n == st.size + 1
       IN  IF SizeValueExceeds(n, Len(pushed))
             THEN [table |-> Rehash(pushed, Len(pushed) * 2), size |-> n]
             ELSE [table |-> pushed, size |-> n]

\* the object after construction with c buckets and Add(1); ...; Add(k)
RECURSIVE Prefilled(_, _)
Prefilled(c, k) ==
  IF k = 0 THEN [table |-> EmptyTable(c), size |-> 0]
  ELSE RunAdd(Prefilled(c, k - 1), k)

\* ------------------------------------------------------------ plumbing
Goto(t, l) == pc' = [pc EXCEPT ![t] = l]

Running == fault = "none"

\* table_[hash % capacity_] is an element of the vector
Accessible(e) == capacity_ > 0 /\ Index(e, capacity_) <= Len(table_)

\* the process dies: x % 0 traps (SIGFPE) or yields an index outside the vector
Die ==
  /\ fault' \in {"sigfpe", "out_of_bounds"}
  /\ UNCHANGED << variant, initial_capacity, pre, shared, hist, pc, op, elem,
                  ret, found, ops_done, old_size, new_table, nlocked >>

\* a call returns to its caller; its frame (op, elem, ret) is gone
Returned(t, r) ==
  /\ ret' = [ret EXCEPT ![t] = FALSE]
  /\ op' = [op EXCEPT ![t] = "none"]
  /\ elem' = [elem EXCEPT ![t] = 0]
  /\ lin_ret' = [lin_ret EXCEPT ![t] = FALSE]
  /\ ops_done' = [ops_done EXCEPT ![t] = @ + 1]
  /\ add_true' = IF op[t] = "Add" /\ r
                   THEN [add_true EXCEPT ![elem[t]] = @ + 1] ELSE add_true
  /\ add_false' = IF op[t] = "Add" /\ ~r
                   THEN [add_false EXCEPT ![elem[t]] = @ + 1] ELSE add_false
  /\ rem_true' = IF op[t] = "Remove" /\ r
                   THEN [rem_true EXCEPT ![elem[t]] = @ + 1] ELSE rem_true
  /\ Goto(t, "idle")

ReleaseAll(m, t) == [i \in 1..Len(m) |-> IF m[i] = t THEN 0 ELSE m[i]]

ThreadInit ==
  /\ fault = "none"
  /\ pc = [t \in Threads |-> "idle"]
  /\ op = [t \in Threads |-> "none"]
  /\ elem = [t \in Threads |-> 0]
  /\ ret = [t \in Threads |-> FALSE]
  /\ found = [t \in Threads |-> FALSE]
  /\ ops_done = [t \in Threads |-> 0]
  /\ old_size = [t \in Threads |-> 0]
  /\ new_table = [t \in Threads |-> << >>]
  /\ nlocked = [t \in Threads |-> 0]
  /\ policy_cap = [t \in Threads |-> 0]
  /\ lin_ret = [t \in Threads |-> FALSE]
  /\ add_true = [e \in HistElems |-> 0]
  /\ add_false = [e \in HistElems |-> 0]
  /\ rem_true = [e \in HistElems |-> 0]
  /\ rehashes = 0

\* ------------------------------------------------------ HashSetStriped
\* a thread calls Add, Remove or Contains
St_Call(t, o, e) ==
  /\ Running /\ variant = "striped"
  /\ pc[t] = "idle" /\ ops_done[t] < MaxOps
  /\ op' = [op EXCEPT ![t] = o]
  /\ elem' = [elem EXCEPT ![t] = e]
  /\ Goto(t, "acquire")
  /\ UNCHANGED << variant, initial_capacity, pre, shared, hist, fault, ret,
                  found, ops_done, old_size, new_table, nlocked >>

\* mutant: Acquire returns a lock that does not own the mutex (the thread
\* goes on without waiting for the stripe)
St_Acquire_NoLock(t) ==
  /\ Running /\ variant = "striped"
  /\ pc[t] = "acquire"
  /\ Len(mutexes_) > 0
  /\ Goto(t, "contains")
  /\ UNCHANGED << variant, initial_capacity, pre, shared, hist, fault, op, elem,
                  ret, found, ops_done, old_size, new_table, nlocked >>

\* mutant: Acquire locks stripe 0 whatever the element
St_Acquire_FirstStripe(t) ==
  /\ Running /\ variant = "striped"
  /\ pc[t] = "acquire"
  /\ Len(mutexes_) > 0
  /\ mutexes_[1] = 0
  /\ mutexes_' = [mutexes_ EXCEPT ![1] = t]
  /\ Goto(t, "contains")
  /\ UNCHANGED << variant, initial_capacity, pre, table_, set_size_, capacity_,
                  locks_mutex_, mutex_, hist, fault, op, elem, ret, found,
                  ops_done, old_size, new_table, nlocked >>

\* Acquire(x): lock mutexes_[hash(x) % mutexes_.size()]
St_Acquire(t) ==
  /\ Running /\ variant = "striped"
  /\ pc[t] = "acquire"
  /\ IF Len(mutexes_) = 0 THEN Die
     ELSE LET i == Index(elem[t], Len(mutexes_))
          IN  /\ mutexes_[i] = 0
              /\ mutexes_' = [mutexes_ EXCEPT ![i] = t]
              /\ Goto(t, "contains")
              /\ UNCHANGED << variant, initial_capacity, pre, table_, set_size_,
                              capacity_, locks_mutex_, mutex_, hist, fault, op,
                              elem, ret, found, ops_done, old_size, new_table,
                              nlocked >>

\* Contains_(elem) and the branch each operation takes on it
St_Contains_(t) ==
  /\ Running /\ variant = "striped"
  /\ pc[t] = "contains"
  /\ IF ~Accessible(elem[t]) THEN Die
     ELSE LET present == InBucket(table_[Index(elem[t], capacity_)], elem[t])
              abstract == elem[t] \in TableElems(table_)
          IN  /\ CASE op[t] = "Add" ->
                        IF present
                          THEN /\ ret' = [ret EXCEPT ![t] = FALSE]
                               /\ lin_ret' = [lin_ret EXCEPT ![t] = ~abstract]
                               /\ Goto(t, "return")
                          ELSE /\ Goto(t, "push")
                               /\ UNCHANGED << ret, lin_ret >>
                   [] op[t] = "Remove" ->
                        IF ~present
                          THEN /\ ret' = [ret EXCEPT ![t] = FALSE]
                               /\ lin_ret' = [lin_ret EXCEPT ![t] = abstract]
                               /\ Goto(t, "return")
                          ELSE /\ Goto(t, "erase")
                               /\ UNCHANGED << ret, lin_ret >>
                   [] OTHER ->
                        /\ ret' = [ret EXCEPT ![t] = present]
                        /\ lin_ret' = [lin_ret EXCEPT ![t] = abstract]
                        /\ Goto(t, "return")
              /\ UNCHANGED << variant, initial_capacity, pre, shared, policy_cap,
                              add_true, add_false, rem_true, rehashes, fault, op, elem,
                              found, ops_done, old_size, new_table, nlocked >>

\* Add: table_[hash % capacity_].push_back(elem)
St_Push(t) ==
  /\ Running /\ variant = "striped"
  /\ pc[t] = "push"
  /\ IF ~Accessible(elem[t]) THEN Die
     ELSE /\ table_' = [table_ EXCEPT ![Index(elem[t], capacity_)] =
                                          Append(@, elem[t])]
          /\ lin_ret' = [lin_ret EXCEPT ![t] = elem[t] \notin TableElems(table_)]
          /\ Goto(t, "fetch_add")
          /\ UNCHANGED << variant, initial_capacity, pre, set_size_, capacity_,
                          mutexes_, locks_mutex_, mutex_, policy_cap, add_true,
                          add_false, rem_true, rehashes, fault, op, elem, ret, found,
                          ops_done, old_size, new_table, nlocked >>

\* Add: set_size_.fetch_add(1)
St_FetchAdd(t) ==
  /\ Running /\ variant = "striped"
  /\ pc[t] = "fetch_add"
  /\ set_size_' = set_size_ + 1
  /\ Goto(t, "policy")
  /\ UNCHANGED << variant, initial_capacity, pre, table_, capacity_, mutexes_,
                  locks_mutex_, mutex_, hist, fault, op, elem, ret, found,
                  ops_done, old_size, new_table, nlocked >>

\* Add: if (Policy()), with Policy() = set_size_ / capacity_.load() > 4
St_Policy(t) ==
  /\ Running /\ variant = "striped"
  /\ pc[t] = "policy"
  /\ IF SizeValueExceeds(set_size_, capacity_)
       THEN /\ policy_cap' = [policy_cap EXCEPT ![t] = capacity_]
            /\ Goto(t, "unlock")
            /\ UNCHANGED ret
       ELSE /\ ret' = [ret EXCEPT ![t] = TRUE]
            /\ Goto(t, "return")
            /\ UNCHANGED policy_cap
  /\ UNCHANGED << variant, initial_capacity, pre, shared, lin_ret, add_true,
                  add_false, rem_true, rehashes, fault, op, elem, found, ops_done,
                  old_size, new_table, nlocked >>

\* mutant: Add goes into Resize() with its stripe still locked
St_Unlock_Keep(t) ==
  /\ Running /\ variant = "striped"
  /\ pc[t] = "unlock"
  /\ Goto(t, "rs_load")
  /\ UNCHANGED << variant, initial_capacity, pre, shared, hist, fault, op, elem,
                  ret, found, ops_done, old_size, new_table, nlocked >>

\* Add: lock.unlock() before Resize()
St_Unlock(t) ==
  /\ Running /\ variant = "striped"
  /\ pc[t] = "unlock"
  /\ mutexes_' = ReleaseAll(mutexes_, t)
  /\ Goto(t, "rs_load")
  /\ UNCHANGED << variant, initial_capacity, pre, table_, set_size_, capacity_,
                  locks_mutex_, mutex_, hist, fault, op, elem, ret, found,
                  ops_done, old_size, new_table, nlocked >>

\* Resize(): size_t old_size = capacity_.load()
St_ResizeLoad(t) ==
  /\ Running /\ variant = "striped"
  /\ pc[t] = "rs_load"
  /\ old_size' = [old_size EXCEPT ![t] = capacity_]
  /\ nlocked' = [nlocked EXCEPT ![t] = 0]
  /\ Goto(t, "rs_acquire_all")
  /\ UNCHANGED << variant, initial_capacity, pre, shared, hist, fault, op, elem,
                  ret, found, ops_done, new_table >>

\* mutant: AcquireAll() stops after the first stripe
St_AcquireAll_FirstOnly(t) ==
  /\ Running /\ variant = "striped"
  /\ pc[t] = "rs_acquire_all"
  /\ mutexes_[1] = 0
  /\ mutexes_' = [mutexes_ EXCEPT ![1] = t]
  /\ nlocked' = [nlocked EXCEPT ![t] = 1]
  /\ Goto(t, "rs_check")
  /\ UNCHANGED << variant, initial_capacity, pre, table_, set_size_, capacity_,
                  locks_mutex_, mutex_, hist, fault, op, elem, ret, found,
                  ops_done, old_size, new_table >>

\* AcquireAll(): one iteration of the loop, locking the next mutex
St_AcquireAll(t) ==
  /\ Running /\ variant = "striped"
  /\ pc[t] = "rs_acquire_all"
  /\ LET i == nlocked[t] + 1
     IN  /\ mutexes_[i] = 0
         /\ mutexes_' = [mutexes_ EXCEPT ![i] = t]
         /\ nlocked' = [nlocked EXCEPT ![t] = i]
         /\ Goto(t, IF i = Len(mutexes_) THEN "rs_check" ELSE "rs_acquire_all")
  /\ UNCHANGED << variant, initial_capacity, pre, table_, set_size_, capacity_,
                  locks_mutex_, mutex_, hist, fault, op, elem, ret, found,
                  ops_done, old_size, new_table >>

\* mutant: Resize() rehashes whatever the capacity is now
St_ResizeCheck_NoAbort(t) ==
  /\ Running /\ variant = "striped"
  /\ pc[t] = "rs_check"
  /\ Goto(t, "rs_rehash")
  /\ UNCHANGED << variant, initial_capacity, pre, shared, hist, fault, op, elem,
                  ret, found, ops_done, old_size, new_table, nlocked >>

\* Resize(): if (old_size != capacity_.load()) return;
St_ResizeCheck(t) ==
  /\ Running /\ variant = "striped"
  /\ pc[t] = "rs_check"
  /\ Goto(t, IF old_size[t] # capacity_ THEN "rs_return" ELSE "rs_rehash")
  /\ UNCHANGED << variant, initial_capacity, pre, shared, hist, fault, op, elem,
                  ret, found, ops_done, old_size, new_table, nlocked >>

\* Resize(): the copy loop into new_table, then capacity_.store(new_size)
St_ResizeRehash(t) ==
  /\ Running /\ variant = "striped"
  /\ pc[t] = "rs_rehash"
  /\ new_table' = [new_table EXCEPT ![t] = Rehash(table_, old_size[t] * 2)]
  /\ capacity_' = old_size[t] * 2
  /\ rehashes' = rehashes + 1
  /\ Goto(t, "rs_install")
  /\ UNCHANGED << variant, initial_capacity, pre, table_, set_size_, mutexes_,
                  locks_mutex_, mutex_, policy_cap, lin_ret, add_true, add_false,
                  rem_true, fault, op, elem, ret, found, ops_done, old_size, nlocked >>

\* Resize(): table_.clear(); table_ = new_table
St_ResizeInstall(t) ==
  /\ Running /\ variant = "striped"
  /\ pc[t] = "rs_install"
  /\ table_' = new_table[t]
  /\ new_table' = [new_table EXCEPT ![t] = << >>]
  /\ Goto(t, "rs_return")
  /\ UNCHANGED << variant, initial_capacity, pre, set_size_, capacity_, mutexes_,
                  locks_mutex_, mutex_, hist, fault, op, elem, ret, found,
                  ops_done, old_size, nlocked >>

\* Resize() returns (its locks are released), then Add returns true
St_ResizeReturn(t) ==
  /\ Running /\ variant = "striped"
  /\ pc[t] = "rs_return"
  /\ mutexes_' = ReleaseAll(mutexes_, t)
  /\ nlocked' = [nlocked EXCEPT ![t] = 0]
  /\ old_size' = [old_size EXCEPT ![t] = 0]
  /\ Returned(t, TRUE)
  /\ UNCHANGED << variant, initial_capacity, pre, table_, set_size_, capacity_,
                  locks_mutex_, mutex_, policy_cap, rehashes, fault, found,
                  new_table >>

\* Remove: bucket.erase(std::remove(...), bucket.end()) on table_[hash % capacity_]
St_Erase(t) ==
  /\ Running /\ variant = "striped"
  /\ pc[t] = "erase"
  /\ IF ~Accessible(elem[t]) THEN Die
     ELSE /\ table_' = [table_ EXCEPT ![Index(elem[t], capacity_)] =
                                          EraseRemove(@, elem[t])]
          /\ lin_ret' = [lin_ret EXCEPT ![t] = elem[t] \in TableElems(table_)]
          /\ Goto(t, "fetch_sub")
          /\ UNCHANGED << variant, initial_capacity, pre, set_size_, capacity_,
                          mutexes_, locks_mutex_, mutex_, policy_cap, add_true,
                          add_false, rem_true, rehashes, fault, op, elem, ret, found,
                          ops_done, old_size, new_table, nlocked >>

\* mutant: Remove leaves set_size_ alone
St_FetchSub_Skip(t) ==
  /\ Running /\ variant = "striped"
  /\ pc[t] = "fetch_sub"
  /\ ret' = [ret EXCEPT ![t] = TRUE]
  /\ Goto(t, "return")
  /\ UNCHANGED << variant, initial_capacity, pre, shared, hist, fault, op, elem,
                  found, ops_done, old_size, new_table, nlocked >>

\* Remove: set_size_.fetch_sub(1); the call will return true
St_FetchSub(t) ==
  /\ Running /\ variant = "striped"
  /\ pc[t] = "fetch_sub"
  /\ set_size_' = set_size_ - 1
  /\ ret' = [ret EXCEPT ![t] = TRUE]
  /\ Goto(t, "return")
  /\ UNCHANGED << variant, initial_capacity, pre, table_, capacity_, mutexes_,
                  locks_mutex_, mutex_, hist, fault, op, elem, found, ops_done,
                  old_size, new_table, nlocked >>

\* mutant: the call returns with its stripe still locked
St_Return_KeepStripe(t) ==
  /\ Running /\ variant = "striped"
  /\ pc[t] = "return"
  /\ Returned(t, ret[t])
  /\ UNCHANGED << variant, initial_capacity, pre, shared, policy_cap, rehashes,
                  fault, found, old_size, new_table, nlocked >>

\* return: the unique_lock's destructor unlocks the stripe
St_Return(t) ==
  /\ Running /\ variant = "striped"
  /\ pc[t] = "return"
  /\ mutexes_' = ReleaseAll(mutexes_, t)
  /\ Returned(t, ret[t])
  /\ UNCHANGED << variant, initial_capacity, pre, table_, set_size_, capacity_,
                  locks_mutex_, mutex_, policy_cap, rehashes, fault, found,
                  old_size, new_table, nlocked >>

St_Next ==
  \E t \in Threads :
    \/ \E o \in Ops, e \in ThreadElems : St_Call(t, o, e)
    \/ St_Acquire(t)
    \/ St_Contains_(t)
    \/ St_Push(t)
    \/ St_FetchAdd(t)
    \/ St_Policy(t)
    \/ St_Unlock(t)
    \/ St_ResizeLoad(t)
    \/ St_AcquireAll(t)
    \/ St_ResizeCheck(t)
    \/ St_ResizeRehash(t)
    \/ St_ResizeInstall(t)
    \/ St_ResizeReturn(t)
    \/ St_Erase(t)
    \/ St_FetchSub(t)
    \/ St_Return(t)

\* a step of thread t inside a call it has made (the scheduler runs it; the
\* caller alone decides whether to make a call)
St_Step(t) ==
  \/ St_Acquire(t)
  \/ St_Contains_(t)
  \/ St_Push(t)
  \/ St_FetchAdd(t)
  \/ St_Policy(t)
  \/ St_Unlock(t)
  \/ St_ResizeLoad(t)
  \/ St_AcquireAll(t)
  \/ St_ResizeCheck(t)
  \/ St_ResizeRehash(t)
  \/ St_ResizeInstall(t)
  \/ St_ResizeReturn(t)
  \/ St_Erase(t)
  \/ St_FetchSub(t)
  \/ St_Return(t)

\* thread t waits for a stripe that is locked: in Acquire(), or in the loop
\* of AcquireAll()
St_Blocked(t) ==
  /\ variant = "striped" /\ Len(mutexes_) > 0
  /\ \/ pc[t] = "acquire" /\ mutexes_[Index(elem[t], Len(mutexes_))] # 0
     \/ pc[t] = "rs_acquire_all" /\ mutexes_[nlocked[t] + 1] # 0

\* ---------------------------------------------------- HashSetRefinable
\* a thread calls Add, Remove or Contains
Rf_Call(t, o, e) ==
  /\ Running /\ variant = "refinable"
  /\ pc[t] = "idle" /\ ops_done[t] < MaxOps
  /\ op' = [op EXCEPT ![t] = o]
  /\ elem' = [elem EXCEPT ![t] = e]
  /\ Goto(t, "lock_shared")
  /\ UNCHANGED << variant, initial_capacity, pre, shared, hist, fault, ret,
                  found, ops_done, old_size, new_table, nlocked >>

\* std::shared_lock<std::shared_mutex> locks_mutex(locks_mutex_)
Rf_LockShared(t) ==
  /\ Running /\ variant = "refinable"
  /\ pc[t] = "lock_shared"
  /\ locks_mutex_.excl = 0
  /\ locks_mutex_' = [locks_mutex_ EXCEPT !.shared = @ \cup {t}]
  /\ Goto(t, "acquire")
  /\ UNCHANGED << variant, initial_capacity, pre, table_, set_size_, capacity_,
                  mutexes_, mutex_, hist, fault, op, elem, ret, found, ops_done,
                  old_size, new_table, nlocked >>

\* Acquire(x): lock *mutexes_[hash(x) % mutexes_.size()]
Rf_Acquire(t) ==
  /\ Running /\ variant = "refinable"
  /\ pc[t] = "acquire"
  /\ IF Len(mutexes_) = 0 THEN Die
     ELSE LET i == Index(elem[t], Len(mutexes_))
          IN  /\ mutexes_[i] = 0
              /\ mutexes_' = [mutexes_ EXCEPT ![i] = t]
              /\ Goto(t, "contains")
              /\ UNCHANGED << variant, initial_capacity, pre, table_, set_size_,
                              capacity_, locks_mutex_, mutex_, hist, fault, op,
                              elem, ret, found, ops_done, old_size, new_table,
                              nlocked >>

\* Contains_(elem) and the branch each operation takes on it
Rf_Contains_(t) ==
  /\ Running /\ variant = "refinable"
  /\ pc[t] = "contains"
  /\ IF ~Accessible(elem[t]) THEN Die
     ELSE LET present == InBucket(table_[Index(elem[t], capacity_)], elem[t])
              abstract == elem[t] \in TableElems(table_)
          IN  /\ CASE op[t] = "Add" ->
                        IF present
                          THEN /\ ret' = [ret EXCEPT ![t] = FALSE]
                               /\ lin_ret' = [lin_ret EXCEPT ![t] = ~abstract]
                               /\ Goto(t, "return")
                          ELSE /\ Goto(t, "push")
                               /\ UNCHANGED << ret, lin_ret >>
                   [] op[t] = "Remove" ->
                        IF ~present
                          THEN /\ ret' = [ret EXCEPT ![t] = FALSE]
                               /\ lin_ret' = [lin_ret EXCEPT ![t] = abstract]
                               /\ Goto(t, "return")
                          ELSE /\ Goto(t, "erase")
                               /\ UNCHANGED << ret, lin_ret >>
                   [] OTHER ->
                        /\ ret' = [ret EXCEPT ![t] = present]
                        /\ lin_ret' = [lin_ret EXCEPT ![t] = abstract]
                        /\ Goto(t, "return")
              /\ UNCHANGED << variant, initial_capacity, pre, shared, policy_cap,
                              add_true, add_false, rem_true, rehashes, fault, op, elem,
                              found, ops_done, old_size, new_table, nlocked >>

\* Add: table_[hash % capacity_].push_back(elem)
Rf_Push(t) ==
  /\ Running /\ variant = "refinable"
  /\ pc[t] = "push"
  /\ IF ~Accessible(elem[t]) THEN Die
     ELSE /\ table_' = [table_ EXCEPT ![Index(elem[t], capacity_)] =
                                          Append(@, elem[t])]
          /\ lin_ret' = [lin_ret EXCEPT ![t] = elem[t] \notin TableElems(table_)]
          /\ Goto(t, "fetch_add")
          /\ UNCHANGED << variant, initial_capacity, pre, set_size_, capacity_,
                          mutexes_, locks_mutex_, mutex_, policy_cap, add_true,
                          add_false, rem_true, rehashes, fault, op, elem, ret, found,
                          ops_done, old_size, new_table, nlocked >>

\* Add: set_size_.fetch_add(1)
Rf_FetchAdd(t) ==
  /\ Running /\ variant = "refinable"
  /\ pc[t] = "fetch_add"
  /\ set_size_' = set_size_ + 1
  /\ Goto(t, "policy")
  /\ UNCHANGED << variant, initial_capacity, pre, table_, capacity_, mutexes_,
                  locks_mutex_, mutex_, hist, fault, op, elem, ret, found,
                  ops_done, old_size, new_table, nlocked >>

\* Add: if (Policy()), with Policy() = set_size_ / capacity_.load() > 4
Rf_Policy(t) ==
  /\ Running /\ variant = "refinable"
  /\ pc[t] = "policy"
  /\ IF SizeValueExceeds(set_size_, capacity_)
       THEN /\ policy_cap' = [policy_cap EXCEPT ![t] = capacity_]
            /\ Goto(t, "unlock_shared")
            /\ UNCHANGED ret
       ELSE /\ ret' = [ret EXCEPT ![t] = TRUE]
            /\ Goto(t, "return")
            /\ UNCHANGED policy_cap
  /\ UNCHANGED << variant, initial_capacity, pre, shared, lin_ret, add_true,
                  add_false, rem_true, rehashes, fault, op, elem, found, ops_done,
                  old_size, new_table, nlocked >>

\* mutant: Add goes on towards Resize() with its shared hold on the
\* coordinator kept
Rf_UnlockShared_Keep(t) ==
  /\ Running /\ variant = "refinable"
  /\ pc[t] = "unlock_shared"
  /\ Goto(t, "unlock")
  /\ UNCHANGED << variant, initial_capacity, pre, shared, hist, fault, op, elem,
                  ret, found, ops_done, old_size, new_table, nlocked >>

\* Add: locks_mutex.unlock(), the shared hold on the coordinator
Rf_UnlockShared(t) ==
  /\ Running /\ variant = "refinable"
  /\ pc[t] = "unlock_shared"
  /\ locks_mutex_' = [locks_mutex_ EXCEPT !.shared = @ \ {t}]
  /\ Goto(t, "unlock")
  /\ UNCHANGED << variant, initial_capacity, pre, table_, set_size_, capacity_,
                  mutexes_, mutex_, hist, fault, op, elem, ret, found, ops_done,
                  old_size, new_table, nlocked >>

\* mutant: Add goes into Resize() with its slot still locked
Rf_Unlock_Keep(t) ==
  /\ Running /\ variant = "refinable"
  /\ pc[t] = "unlock"
  /\ Goto(t, "rs_load")
  /\ UNCHANGED << variant, initial_capacity, pre, shared, hist, fault, op, elem,
                  ret, found, ops_done, old_size, new_table, nlocked >>

\* Add: lock.unlock(), the slot, before Resize()
Rf_Unlock(t) ==
  /\ Running /\ variant = "refinable"
  /\ pc[t] = "unlock"
  /\ mutexes_' = ReleaseAll(mutexes_, t)
  /\ Goto(t, "rs_load")
  /\ UNCHANGED << variant, initial_capacity, pre, table_, set_size_, capacity_,
                  locks_mutex_, mutex_, hist, fault, op, elem, ret, found,
                  ops_done, old_size, new_table, nlocked >>

\* Resize(): size_t old_size = capacity_.load()
Rf_ResizeLoad(t) ==
  /\ Running /\ variant = "refinable"
  /\ pc[t] = "rs_load"
  /\ old_size' = [old_size EXCEPT ![t] = capacity_]
  /\ nlocked' = [nlocked EXCEPT ![t] = 0]
  /\ Goto(t, "rs_excl")
  /\ UNCHANGED << variant, initial_capacity, pre, shared, hist, fault, op, elem,
                  ret, found, ops_done, new_table >>

\* Resize(): std::unique_lock<std::shared_mutex> lock(locks_mutex_)
Rf_LockExclusive(t) ==
  /\ Running /\ variant = "refinable"
  /\ pc[t] = "rs_excl"
  /\ locks_mutex_.excl = 0 /\ locks_mutex_.shared = {}
  /\ locks_mutex_' = [locks_mutex_ EXCEPT !.excl = t]
  /\ Goto(t, "rs_acquire_all")
  /\ UNCHANGED << variant, initial_capacity, pre, table_, set_size_, capacity_,
                  mutexes_, mutex_, hist, fault, op, elem, ret, found, ops_done,
                  old_size, new_table, nlocked >>

\* AcquireAll(): one iteration of the loop, locking the next mutex
Rf_AcquireAll(t) ==
  /\ Running /\ variant = "refinable"
  /\ pc[t] = "rs_acquire_all"
  /\ LET i == nlocked[t] + 1
     IN  /\ mutexes_[i] = 0
         /\ mutexes_' = [mutexes_ EXCEPT ![i] = t]
         /\ nlocked' = [nlocked EXCEPT ![t] = i]
         /\ Goto(t, IF i = Len(mutexes_) THEN "rs_check" ELSE "rs_acquire_all")
  /\ UNCHANGED << variant, initial_capacity, pre, table_, set_size_, capacity_,
                  locks_mutex_, mutex_, hist, fault, op, elem, ret, found,
                  ops_done, old_size, new_table >>

\* Resize(): if (old_size != capacity_.load()) return;
Rf_ResizeCheck(t) ==
  /\ Running /\ variant = "refinable"
  /\ pc[t] = "rs_check"
  /\ Goto(t, IF old_size[t] # capacity_ THEN "rs_return" ELSE "rs_rehash")
  /\ UNCHANGED << variant, initial_capacity, pre, shared, hist, fault, op, elem,
                  ret, found, ops_done, old_size, new_table, nlocked >>

\* mutant: Resize() rehashes and leaves the slot array as it is
Rf_ResizeRehash_NoNewSlots(t) ==
  /\ Running /\ variant = "refinable"
  /\ pc[t] = "rs_rehash"
  /\ new_table' = [new_table EXCEPT ![t] = Rehash(table_, old_size[t] * 2)]
  /\ capacity_' = old_size[t] * 2
  /\ rehashes' = rehashes + 1
  /\ Goto(t, "rs_install")
  /\ UNCHANGED << variant, initial_capacity, pre, table_, set_size_, mutexes_,
                  locks_mutex_, mutex_, policy_cap, lin_ret, add_true, add_false,
                  rem_true, fault, op, elem, ret, found, ops_done, old_size, nlocked >>

\* Resize(): the copy loop into new_table, old_size new mutexes pushed back,
\* then capacity_.store(new_size)
Rf_ResizeRehash(t) ==
  /\ Running /\ variant = "refinable"
  /\ pc[t] = "rs_rehash"
  /\ new_table' = [new_table EXCEPT ![t] = Rehash(table_, old_size[t] * 2)]
  /\ mutexes_' = [i \in 1..(Len(mutexes_) + old_size[t]) |->
                    IF i <= Len(mutexes_) THEN mutexes_[i] ELSE 0]
  /\ capacity_' = old_size[t] * 2
  /\ rehashes' = rehashes + 1
  /\ Goto(t, "rs_install")
  /\ UNCHANGED << variant, initial_capacity, pre, table_, set_size_,
                  locks_mutex_, mutex_, policy_cap, lin_ret, add_true, add_false,
                  rem_true, fault, op, elem, ret, found, ops_done, old_size, nlocked >>

\* Resize(): table_.clear(); table_ = new_table
Rf_ResizeInstall(t) ==
  /\ Running /\ variant = "refinable"
  /\ pc[t] = "rs_install"
  /\ table_' = new_table[t]
  /\ new_table' = [new_table EXCEPT ![t] = << >>]
  /\ Goto(t, "rs_return")
  /\ UNCHANGED << variant, initial_capacity, pre, set_size_, capacity_, mutexes_,
                  locks_mutex_, mutex_, hist, fault, op, elem, ret, found,
                  ops_done, old_size, nlocked >>

\* Resize() returns (the slot locks, then the exclusive coordinator lock are
\* released), then Add returns true
Rf_ResizeReturn(t) ==
  /\ Running /\ variant = "refinable"
  /\ pc[t] = "rs_return"
  /\ mutexes_' = ReleaseAll(mutexes_, t)
  /\ locks_mutex_' = [locks_mutex_ EXCEPT !.excl = 0]
  /\ nlocked' = [nlocked EXCEPT ![t] = 0]
  /\ old_size' = [old_size EXCEPT ![t] = 0]
  /\ Returned(t, TRUE)
  /\ UNCHANGED << variant, initial_capacity, pre, table_, set_size_, capacity_,
                  mutex_, policy_cap, rehashes, fault, found,
                  new_table >>

\* Remove: bucket.erase(std::remove(...), bucket.end()) on table_[hash % capacity_]
Rf_Erase(t) ==
  /\ Running /\ variant = "refinable"
  /\ pc[t] = "erase"
  /\ IF ~Accessible(elem[t]) THEN Die
     ELSE /\ table_' = [table_ EXCEPT ![Index(elem[t], capacity_)] =
                                          EraseRemove(@, elem[t])]
          /\ lin_ret' = [lin_ret EXCEPT ![t] = elem[t] \in TableElems(table_)]
          /\ Goto(t, "fetch_sub")
          /\ UNCHANGED << variant, initial_capacity, pre, set_size_, capacity_,
                          mutexes_, locks_mutex_, mutex_, policy_cap, add_true,
                          add_false, rem_true, rehashes, fault, op, elem, ret, found,
                          ops_done, old_size, new_table, nlocked >>

\* Remove: set_size_.fetch_sub(1); the call will return true
Rf_FetchSub(t) ==
  /\ Running /\ variant = "refinable"
  /\ pc[t] = "fetch_sub"
  /\ set_size_' = set_size_ - 1
  /\ ret' = [ret EXCEPT ![t] = TRUE]
  /\ Goto(t, "return")
  /\ UNCHANGED << variant, initial_capacity, pre, table_, capacity_, mutexes_,
                  locks_mutex_, mutex_, hist, fault, op, elem, found, ops_done,
                  old_size, new_table, nlocked >>

\* return: the destructors unlock the slot, then the shared coordinator lock
Rf_Return(t) ==
  /\ Running /\ variant = "refinable"
  /\ pc[t] = "return"
  /\ mutexes_' = ReleaseAll(mutexes_, t)
  /\ locks_mutex_' = [locks_mutex_ EXCEPT !.shared = @ \ {t}]
  /\ Returned(t, ret[t])
  /\ UNCHANGED << variant, initial_capacity, pre, table_, set_size_, capacity_,
                  mutex_, policy_cap, rehashes, fault, found,
                  old_size, new_table, nlocked >>

Rf_Next ==
  \E t \in Threads :
    \/ \E o \in Ops, e \in ThreadElems : Rf_Call(t, o, e)
    \/ Rf_LockShared(t)
    \/ Rf_Acquire(t)
    \/ Rf_Contains_(t)
    \/ Rf_Push(t)
    \/ Rf_FetchAdd(t)
    \/ Rf_Policy(t)
    \/ Rf_UnlockShared(t)
    \/ Rf_Unlock(t)
    \/ Rf_ResizeLoad(t)
    \/ Rf_LockExclusive(t)
    \/ Rf_AcquireAll(t)
    \/ Rf_ResizeCheck(t)
    \/ Rf_ResizeRehash(t)
    \/ Rf_ResizeInstall(t)
    \/ Rf_ResizeReturn(t)
    \/ Rf_Erase(t)
    \/ Rf_FetchSub(t)
    \/ Rf_Return(t)

\* a step of thread t inside a call it has made
Rf_Step(t) ==
  \/ Rf_LockShared(t)
  \/ Rf_Acquire(t)
  \/ Rf_Contains_(t)
  \/ Rf_Push(t)
  \/ Rf_FetchAdd(t)
  \/ Rf_Policy(t)
  \/ Rf_UnlockShared(t)
  \/ Rf_Unlock(t)
  \/ Rf_ResizeLoad(t)
  \/ Rf_LockExclusive(t)
  \/ Rf_AcquireAll(t)
  \/ Rf_ResizeCheck(t)
  \/ Rf_ResizeRehash(t)
  \/ Rf_ResizeInstall(t)
  \/ Rf_ResizeReturn(t)
  \/ Rf_Erase(t)
  \/ Rf_FetchSub(t)
  \/ Rf_Return(t)

\* thread t waits for the coordinator or for a slot.  std::shared_mutex may
\* make lock_shared() wait while a writer waits (the standard leaves that to
\* the implementation): a thread at lock_shared counts as waiting then too.
Rf_Blocked(t) ==
  /\ variant = "refinable" /\ Len(mutexes_) > 0
  /\ \/ /\ pc[t] = "lock_shared"
        /\ \/ locks_mutex_.excl # 0
           \/ \E u \in Threads : pc[u] = "rs_excl"
     \/ pc[t] = "acquire" /\ mutexes_[Index(elem[t], Len(mutexes_))] # 0
     \/ /\ pc[t] = "rs_excl"
        /\ locks_mutex_.excl # 0 \/ locks_mutex_.shared # {}
     \/ pc[t] = "rs_acquire_all" /\ mutexes_[nlocked[t] + 1] # 0

\* --------------------------------------------------- HashSetSequential
\* a call of the sequential set has returned r; the set has one caller,
\* thread 1
SeqReturned(o, e, r) ==
  /\ op' = [op EXCEPT ![1] = o]
  /\ elem' = [elem EXCEPT ![1] = e]
  /\ ret' = [ret EXCEPT ![1] = r]

\* bool Add(T elem)
Seq_Add(e) ==
  /\ Running /\ variant = "sequential"
  /\ IF Len(table_) = 0 THEN Die
     ELSE LET st == RunAdd([table |-> table_, size |-> set_size_], e)
          IN  /\ table_' = st.table
              /\ set_size_' = st.size
              /\ rehashes' = IF Len(st.table) # Len(table_)
                               THEN rehashes + 1 ELSE rehashes
              /\ SeqReturned("Add", e,
                             ~InBucket(table_[Index(e, Len(table_))], e))
              /\ UNCHANGED << variant, initial_capacity, pre, capacity_,
                              mutexes_, locks_mutex_, mutex_, policy_cap,
                              lin_ret, add_true, add_false, rem_true, fault, pc,
                              found, ops_done, old_size, new_table, nlocked >>

\* mutant: Remove erases the element and leaves set_size_ alone
Seq_Remove_NoDecrement(e) ==
  /\ Running /\ variant = "sequential"
  /\ Len(table_) > 0
  /\ LET b == Index(e, Len(table_))
     IN  /\ table_' = [table_ EXCEPT ![b] = EraseRemove(@, e)]
         /\ SeqReturned("Remove", e, InBucket(table_[b], e))
         /\ UNCHANGED << variant, initial_capacity, pre, set_size_, capacity_,
                         mutexes_, locks_mutex_, mutex_, hist, fault, pc,
                         found, ops_done, old_size, new_table, nlocked >>

\* bool Remove(T elem)
Seq_Remove(e) ==
  /\ Running /\ variant = "sequential"
  /\ IF Len(table_) = 0 THEN Die
     ELSE LET b == Index(e, Len(table_))
          IN  /\ IF ~InBucket(table_[b], e)
                   THEN /\ SeqReturned("Remove", e, FALSE)
                        /\ UNCHANGED << table_, set_size_ >>
                   ELSE /\ table_' = [table_ EXCEPT ![b] = EraseRemove(@, e)]
                        /\ set_size_' = set_size_ - 1
                        /\ SeqReturned("Remove", e, TRUE)
              /\ UNCHANGED << variant, initial_capacity, pre, capacity_,
                              mutexes_, locks_mutex_, mutex_, hist, fault, pc,
                              found, ops_done, old_size, new_table, nlocked >>

\* bool Contains(T elem)
Seq_Contains(e) ==
  /\ Running /\ variant = "sequential"
  /\ IF Len(table_) = 0 THEN Die
     ELSE /\ SeqReturned("Contains", e,
                         InBucket(table_[Index(e, Len(table_))], e))
          /\ UNCHANGED << variant, initial_capacity, pre, shared, hist, fault,
                          pc, found, ops_done, old_size, new_table, nlocked >>

\* any call with any element
Seq_Next ==
  \E e \in Elems : Seq_Add(e) \/ Seq_Remove(e) \/ Seq_Contains(e)

\* the resize scenario: distinct elements 1, 2, 3, ... added one after the
\* other, Contains called in between
Sc_Next ==
  \/ \E e \in {set_size_ + 1} \cap (1..MaxScenario) : Seq_Add(e)
  \/ \E e \in 1..MaxScenario : Seq_Contains(e)

\* ------------------------------------------------ HashSetCoarseGrained
\* a thread calls Add, Remove or Contains; each starts with Contains(elem)
Co_Call(t, o, e) ==
  /\ Running /\ variant = "coarse"
  /\ pc[t] = "idle" /\ ops_done[t] < MaxOps
  /\ op' = [op EXCEPT ![t] = o]
  /\ elem' = [elem EXCEPT ![t] = e]
  /\ Goto(t, "co_contains_lock")
  /\ UNCHANGED << variant, initial_capacity, pre, shared, hist, fault, ret,
                  found, ops_done, old_size, new_table, nlocked >>

\* Contains: std::scoped_lock<std::mutex> lock(mutex_)
Co_ContainsLock(t) ==
  /\ Running /\ variant = "coarse"
  /\ pc[t] = "co_contains_lock"
  /\ mutex_ = 0
  /\ mutex_' = t
  /\ Goto(t, "co_contains_find")
  /\ UNCHANGED << variant, initial_capacity, pre, table_, set_size_, capacity_,
                  mutexes_, locks_mutex_, hist, fault, op, elem, ret, found,
                  ops_done, old_size, new_table, nlocked >>

\* Contains: std::find in the bucket, return (mutex_ unlocked); in Add and
\* Remove the caller then branches on the result
Co_ContainsFind(t) ==
  /\ Running /\ variant = "coarse"
  /\ pc[t] = "co_contains_find"
  /\ IF Len(table_) = 0 THEN Die
     ELSE LET present == InBucket(table_[Index(elem[t], Len(table_))], elem[t])
              abstract == elem[t] \in TableElems(table_)
              done == \/ op[t] = "Contains"
                      \/ op[t] = "Add" /\ present
                      \/ op[t] = "Remove" /\ ~present
              r == IF op[t] = "Contains" THEN present ELSE FALSE
          IN  /\ mutex_' = 0
              /\ found' = [found EXCEPT ![t] = present]
              /\ IF done
                   THEN /\ Returned(t, r)
                        /\ UNCHANGED << policy_cap, rehashes >>
                   ELSE /\ Goto(t, "co_lock")
                        /\ UNCHANGED << hist, op, elem, ret, ops_done >>
              /\ UNCHANGED << variant, initial_capacity, pre, table_, set_size_,
                              capacity_, mutexes_, locks_mutex_, fault,
                              old_size, new_table, nlocked >>

\* Add, Remove: std::scoped_lock<std::mutex> lock(mutex_)
Co_Lock(t) ==
  /\ Running /\ variant = "coarse"
  /\ pc[t] = "co_lock"
  /\ mutex_ = 0
  /\ mutex_' = t
  /\ Goto(t, IF op[t] = "Add" THEN "co_push" ELSE "co_erase")
  /\ UNCHANGED << variant, initial_capacity, pre, table_, set_size_, capacity_,
                  mutexes_, locks_mutex_, hist, fault, op, elem, ret, found,
                  ops_done, old_size, new_table, nlocked >>

\* Add: table_[hash % table_.size()].push_back(elem)
Co_Push(t) ==
  /\ Running /\ variant = "coarse"
  /\ pc[t] = "co_push"
  /\ table_' = [table_ EXCEPT ![Index(elem[t], Len(table_))] =
                                  Append(@, elem[t])]
  /\ lin_ret' = [lin_ret EXCEPT ![t] = elem[t] \notin TableElems(table_)]
  /\ Goto(t, "co_fetch_add")
  /\ UNCHANGED << variant, initial_capacity, pre, set_size_, capacity_,
                  mutexes_, locks_mutex_, mutex_, policy_cap, add_true,
                  add_false, rem_true, rehashes, fault, op, elem, ret, found,
                  ops_done, old_size, new_table, nlocked >>

\* Add: set_size_.fetch_add(1)
Co_FetchAdd(t) ==
  /\ Running /\ variant = "coarse"
  /\ pc[t] = "co_fetch_add"
  /\ set_size_' = set_size_ + 1
  /\ Goto(t, "co_policy")
  /\ UNCHANGED << variant, initial_capacity, pre, table_, capacity_, mutexes_,
                  locks_mutex_, mutex_, hist, fault, op, elem, ret, found,
                  ops_done, old_size, new_table, nlocked >>

\* Add: if (Policy()) Resize(); both under mutex_
Co_PolicyResize(t) ==
  /\ Running /\ variant = "coarse"
  /\ pc[t] = "co_policy"
  /\ IF SizeValueExceeds(set_size_, Len(table_))
       THEN /\ table_' = Rehash(table_, Len(table_) * 2)
            /\ rehashes' = rehashes + 1
       ELSE UNCHANGED << table_, rehashes >>
  /\ Goto(t, "co_return")
  /\ UNCHANGED << variant, initial_capacity, pre, set_size_, capacity_,
                  mutexes_, locks_mutex_, mutex_, policy_cap, lin_ret, add_true,
                  add_false, rem_true, fault, op, elem, ret, found, ops_done,
                  old_size, new_table, nlocked >>

\* Remove: table_[i].erase(std::remove(bucket.begin(), bucket.end(), elem),
\* bucket.end()) where bucket is a COPY of table_[i]: iterators of another
\* vector are passed to erase, which is undefined.  With k occurrences of
\* elem in the bucket the builds give: the vector k elements shorter at its
\* tail (no bytes moved), k elements shorter at its head (the range between
\* the two vectors moved down), the erase of elem as intended, or a crash.
\* With k = 0 both iterators are equal and erase does nothing.
EraseForeign(bucket, e) ==
  LET k == CountIn(bucket, e)
  IN  IF k = 0 THEN {bucket}
      ELSE {SubSeq(bucket, 1, Len(bucket) - k),
            SubSeq(bucket, k + 1, Len(bucket)),
            EraseRemove(bucket, e)}

Co_Erase(t) ==
  /\ Running /\ variant = "coarse"
  /\ pc[t] = "co_erase"
  /\ LET b == Index(elem[t], Len(table_))
     IN  \/ /\ \E nb \in EraseForeign(table_[b], elem[t]) :
                 table_' = [table_ EXCEPT ![b] = nb]
            /\ lin_ret' = [lin_ret EXCEPT ![t] = elem[t] \in TableElems(table_)]
            /\ Goto(t, "co_fetch_sub")
            /\ UNCHANGED fault
         \/ /\ CountIn(table_[b], elem[t]) > 0
            /\ fault' = "undefined_behaviour"
            /\ UNCHANGED << table_, lin_ret, pc >>
  /\ UNCHANGED << variant, initial_capacity, pre, set_size_, capacity_,
                  mutexes_, locks_mutex_, mutex_, policy_cap, add_true,
                  add_false, rem_true, rehashes, op, elem, ret, found,
                  ops_done, old_size, new_table, nlocked >>

\* Remove: set_size_.fetch_sub(1)
Co_FetchSub(t) ==
  /\ Running /\ variant = "coarse"
  /\ pc[t] = "co_fetch_sub"
  /\ set_size_' = set_size_ - 1
  /\ Goto(t, "co_return")
  /\ UNCHANGED << variant, initial_capacity, pre, table_, capacity_, mutexes_,
                  locks_mutex_, mutex_, hist, fault, op, elem, ret, found,
                  ops_done, old_size, new_table, nlocked >>

\* Add, Remove: return true (mutex_ unlocked)
Co_Return(t) ==
  /\ Running /\ variant = "coarse"
  /\ pc[t] = "co_return"
  /\ mutex_' = 0
  /\ Returned(t, TRUE)
  /\ UNCHANGED << variant, initial_capacity, pre, table_, set_size_, capacity_,
                  mutexes_, locks_mutex_, policy_cap, rehashes, fault, found,
                  old_size, new_table, nlocked >>

Co_Next ==
  \E t \in Threads :
    \/ \E o \in Ops, e \in ThreadElems : Co_Call(t, o, e)
    \/ Co_ContainsLock(t)
    \/ Co_ContainsFind(t)
    \/ Co_Lock(t)
    \/ Co_Push(t)
    \/ Co_FetchAdd(t)
    \/ Co_PolicyResize(t)
    \/ Co_Erase(t)
    \/ Co_FetchSub(t)
    \/ Co_Return(t)

\* ---------------------------------------------------- specifications
\* constructor HashSetStriped(initial_capacity), then Add(1..k) by one thread
St_Init ==
  /\ variant = "striped"
  /\ \E c \in InitCaps, k \in 0..PreFill :
       /\ (c = 0 => k = 0)
       /\ initial_capacity = c
       /\ table_ = Prefilled(c, k).table
       /\ set_size_ = Prefilled(c, k).size
       /\ capacity_ = Len(Prefilled(c, k).table)
       /\ mutexes_ = [i \in 1..c |-> 0]
       /\ pre = PreElems(k)
  /\ locks_mutex_ = [excl |-> 0, shared |-> {}]
  /\ mutex_ = 0
  /\ ThreadInit

\* constructor HashSetRefinable(initial_capacity), then Add(1..k) by one
\* thread; a Resize() on the way has grown mutexes_ with the table
Rf_Init ==
  /\ variant = "refinable"
  /\ \E c \in InitCaps, k \in 0..PreFill :
       /\ (c = 0 => k = 0)
       /\ initial_capacity = c
       /\ table_ = Prefilled(c, k).table
       /\ set_size_ = Prefilled(c, k).size
       /\ capacity_ = Len(Prefilled(c, k).table)
       /\ mutexes_ = [i \in 1..Len(Prefilled(c, k).table) |-> 0]
       /\ pre = PreElems(k)
  /\ locks_mutex_ = [excl |-> 0, shared |-> {}]
  /\ mutex_ = 0
  /\ ThreadInit

\* constructor HashSetSequential(initial_capacity)
Seq_Init ==
  /\ variant = "sequential"
  /\ initial_capacity \in InitCaps
  /\ table_ = EmptyTable(initial_capacity)
  /\ set_size_ = 0
  /\ capacity_ = 0
  /\ mutexes_ = << >>
  /\ pre = {}
  /\ locks_mutex_ = [excl |-> 0, shared |-> {}]
  /\ mutex_ = 0
  /\ ThreadInit

\* the resize scenario's set: HashSetSequential(4)
Sc_Init ==
  /\ variant = "sequential"
  /\ initial_capacity = 4
  /\ table_ = EmptyTable(initial_capacity)
  /\ set_size_ = 0
  /\ capacity_ = 0
  /\ mutexes_ = << >>
  /\ pre = {}
  /\ locks_mutex_ = [excl |-> 0, shared |-> {}]
  /\ mutex_ = 0
  /\ ThreadInit

\* constructor HashSetCoarseGrained(initial_capacity), then Add(1..k) by one
\* thread
Co_Init ==
  /\ variant = "coarse"
  /\ \E c \in InitCaps, k \in 0..PreFill :
       /\ (c = 0 => k = 0)
       /\ initial_capacity = c
       /\ table_ = Prefilled(c, k).table
       /\ set_size_ = Prefilled(c, k).size
       /\ pre = PreElems(k)
  /\ capacity_ = 0
  /\ mutexes_ = << >>
  /\ locks_mutex_ = [excl |-> 0, shared |-> {}]
  /\ mutex_ = 0
  /\ ThreadInit

SpecSequential == Seq_Init /\ [][Seq_Next]_vars
SpecScenario == Sc_Init /\ [][Sc_Next]_vars
SpecCoarse == Co_Init /\ [][Co_Next]_vars
SpecStriped == St_Init /\ [][St_Next]_vars
SpecRefinable == Rf_Init /\ [][Rf_Next]_vars

\* constructor HashSetStriped(MaxInitCap), then Add(1..k) by one thread up to
\* the largest size at which Policy() is false: the threads' Adds trigger
\* Resize() on a set with MaxInitCap stripes
St_FullInit ==
  /\ variant = "striped"
  /\ initial_capacity = MaxInitCap
  /\ table_ = Prefilled(MaxInitCap, FullLoad(MaxInitCap)).table
  /\ set_size_ = Prefilled(MaxInitCap, FullLoad(MaxInitCap)).size
  /\ capacity_ = Len(Prefilled(MaxInitCap, FullLoad(MaxInitCap)).table)
  /\ mutexes_ = [i \in 1..MaxInitCap |-> 0]
  /\ pre = PreElems(FullLoad(MaxInitCap))
  /\ locks_mutex_ = [excl |-> 0, shared |-> {}]
  /\ mutex_ = 0
  /\ ThreadInit

\* the striped set under a fair scheduler: a thread that can take a step of
\* its call (one that is not waiting for a locked mutex) eventually takes it
SpecStripedFair ==
  /\ St_Init \/ St_FullInit
  /\ [][St_Next]_vars
  /\ \A t \in Threads : WF_vars(St_Step(t))

\* constructor HashSetRefinable(MaxInitCap), then Add(1..k) by one thread up
\* to the largest size at which Policy() is false
Rf_FullInit ==
  /\ variant = "refinable"
  /\ initial_capacity = MaxInitCap
  /\ table_ = Prefilled(MaxInitCap, FullLoad(MaxInitCap)).table
  /\ set_size_ = Prefilled(MaxInitCap, FullLoad(MaxInitCap)).size
  /\ capacity_ = Len(Prefilled(MaxInitCap, FullLoad(MaxInitCap)).table)
  /\ mutexes_ = [i \in 1..MaxInitCap |-> 0]
  /\ pre = PreElems(FullLoad(MaxInitCap))
  /\ locks_mutex_ = [excl |-> 0, shared |-> {}]
  /\ mutex_ = 0
  /\ ThreadInit

\* the refinable set under a fair scheduler
SpecRefinableFair ==
  /\ Rf_Init \/ Rf_FullInit
  /\ [][Rf_Next]_vars
  /\ \A t \in Threads : WF_vars(Rf_Step(t))

\* the striped and the refinable set, started empty, partly filled or filled
\* up to the resize threshold
SpecLocks ==
  /\ St_Init \/ Rf_Init \/ St_FullInit \/ Rf_FullInit
  /\ [][St_Next \/ Rf_Next]_vars

\* the striped and the refinable set
Init == St_Init \/ Rf_Init
Next == St_Next \/ Rf_Next
Spec == Init /\ [][Next]_vars

\* any of the four sets
All_Init == Seq_Init \/ Co_Init \/ St_Init \/ Rf_Init
All_Next == Seq_Next \/ Co_Next \/ St_Next \/ Rf_Next
SpecAll == All_Init /\ [][All_Next]_vars


\* ------------------------------------------------------------- claims
RECURSIVE SumOver(_, _)
SumOver(f, S) ==
  IF S = {} THEN 0
  ELSE LET x == CHOOSE y \in S : TRUE IN f[x] + SumOver(f, S \ {x})

\* no call is in flight
Quiescent == \A t \in Threads : pc[t] = "idle"

\* places of an Add after its push_back, before the return statement
PostPush == {"fetch_add", "policy", "unlock_shared", "unlock", "rs_load",
             "rs_excl", "rs_acquire_all", "rs_check", "rs_rehash",
             "rs_install", "rs_return"}

\* places of Resize() at which the thread holds every stripe / the exclusive
\* coordinator lock and every slot
FullExclusion == {"rs_check", "rs_rehash", "rs_install", "rs_return"}

\* thread t is in Add(x) and has pushed x
AddPushed(t, x) ==
  /\ op[t] = "Add" /\ elem[t] = x
  /\ pc[t] \in PostPush \/ (pc[t] = "return" /\ ret[t])

\* thread t is in Remove(x) and has erased x
RemErased(t, x) ==
  /\ op[t] = "Remove" /\ elem[t] = x
  /\ pc[t] = "fetch_sub" \/ (pc[t] = "return" /\ ret[t])

InAdd(t, x) == op[t] = "Add" /\ elem[t] = x /\ pc[t] # "idle"
InRemove(t, x) == op[t] = "Remove" /\ elem[t] = x /\ pc[t] # "idle"

\* what Contains(x) returns when called with no other call in flight
ContainsResult(x) ==
  Accessible(x) /\ InBucket(table_[Index(x, capacity_)], x)

\* C1: striped and refinable set, x absent at the start and never removed:
\* of all Add(x) calls, whatever their interleaving, at most one has pushed
\* x, x is stored as often as that; once no Add(x) is in flight and at
\* least one has returned, exactly one returned true (all others false) and
\* x is stored exactly once; at quiescence Size() has moved by exactly 1
\* per call that returned true.
C1_ConcurrentAddOnce ==
  /\ \A x \in ThreadElems :
       (x \notin pre /\ rem_true[x] = 0 /\ ~\E t \in Threads : InRemove(t, x))
       =>
       LET pushed == Cardinality({t \in Threads : AddPushed(t, x)})
       IN  /\ add_true[x] + pushed <= 1
           /\ Occurrences(table_, x) = add_true[x] + pushed
           /\ ((add_true[x] + add_false[x] >= 1
                /\ ~\E t \in Threads : InAdd(t, x))
               => (add_true[x] = 1 /\ Occurrences(table_, x) = 1))
  /\ Quiescent =>
       set_size_ = Cardinality(pre) + SumOver(add_true, ThreadElems)
                                    - SumOver(rem_true, ThreadElems)

\* C1 witness: every thread has called Add(x) once for the same x, absent at
\* the start; one call returned true, the others false; Size() is one more
C1_Witness ==
  \E x \in ThreadElems :
    /\ x \notin pre /\ Quiescent
    /\ \A t \in Threads : ops_done[t] = 1
    /\ add_true[x] = 1 /\ add_false[x] = NumThreads - 1
    /\ Occurrences(table_, x) = 1
    /\ set_size_ = Cardinality(pre) + 1

\* a call returns what the sequential set returns on the abstract set (the
\* union of the buckets) at the step where the call takes effect
LinReturns ==
  \A t \in Threads :
    /\ pc[t] = "return" => ret[t] = lin_ret[t]
    /\ (op[t] = "Add" /\ pc[t] \in PostPush) => lin_ret[t]
    /\ (op[t] = "Remove" /\ pc[t] = "fetch_sub") => lin_ret[t]

\* the abstract set changes only where a call takes effect: Add's push_back
\* adds its element, Remove's erase removes its element, nothing else
\* changes it (a rehash included)
LinEffect ==
  TableElems(table_') =
    IF \E t \in Threads : pc[t] = "push" /\ pc'[t] = "fetch_add"
      THEN TableElems(table_) \cup
             {elem[t] : t \in {u \in Threads : pc[u] = "push" /\ pc'[u] = "fetch_add"}}
    ELSE IF \E t \in Threads : pc[t] = "erase" /\ pc'[t] = "fetch_sub"
      THEN TableElems(table_) \
             {elem[t] : t \in {u \in Threads : pc[u] = "erase" /\ pc'[u] = "fetch_sub"}}
    ELSE TableElems(table_)

\* C4: linearizability of the striped and refinable sets: every call takes
\* effect at one step inside its stripe/slot critical section, returns the
\* value the sequential set returns on the abstract set at that step, and
\* changes the abstract set as the sequential set does.
C4_Linearizable == [](LinReturns) /\ [][LinEffect]_vars

\* C4 witness: a Remove is about to return true for an element that an Add
\* stored after the start, while another thread's Add is on its way into
\* Resize()
C4_Witness ==
  \E t, u \in Threads :
    /\ t # u
    /\ pc[t] = "return" /\ op[t] = "Remove" /\ ret[t] /\ lin_ret[t]
    /\ elem[t] \notin pre /\ add_true[elem[t]] = 1
    /\ op[u] = "Add" /\ pc[u] \in {"rs_load", "rs_excl", "rs_acquire_all"}

\* C5: striped and refinable set, no call in flight: Size() is the number of
\* stored elements, no element is stored twice, and that number is the
\* number of elements for which Contains returns true.
C5_QuiescentAgreement ==
  Quiescent =>
    /\ set_size_ = Stored(table_)
    /\ \A x \in Elems : Occurrences(table_, x) <= 1
    /\ Stored(table_) = Cardinality({x \in Elems : ContainsResult(x)})

\* C5 witness: quiescence after a rehash, a successful Remove and
\* successful Adds
C5_Witness ==
  /\ Quiescent /\ rehashes >= 1
  /\ \E x \in ThreadElems : rem_true[x] >= 1
  /\ \E x \in ThreadElems : add_true[x] >= 1
  /\ set_size_ >= 4

\* every stored element is in bucket hash(e) mod capacity
Placement ==
  /\ Len(table_) = capacity_
  /\ \A b \in 1..Len(table_) : \A i \in 1..Len(table_[b]) :
       Index(table_[b][i], capacity_) = b

\* while a thread holds full exclusion no step changes Size() or how often
\* an element is stored, and when that thread is done (rehash installed or
\* Resize aborted) every element stored before is found by Contains
RehashKeeps ==
  \A t \in Threads :
    pc[t] \in FullExclusion =>
      /\ set_size_' = set_size_
      /\ \A x \in Elems : Occurrences(table_', x) = Occurrences(table_, x)
      /\ (pc[t] = "rs_rehash" /\ pc'[t] = "rs_install") =>
           \A x \in Elems :
             Occurrences(new_table'[t], x) = Occurrences(table_, x)
      /\ pc'[t] \in {"rs_return", "idle"} =>
           \A x \in TableElems(table_) :
             /\ capacity_' > 0 /\ Index(x, capacity_') <= Len(table_')
             /\ InBucket(table_'[Index(x, capacity_')], x)

\* C6: resize safety of the striped and refinable sets: a rehash neither
\* loses, duplicates nor adds elements and leaves Size() alone, what was
\* stored before it is found by Contains after it, and whenever no thread
\* holds full exclusion every stored element is in bucket hash(e) mod
\* capacity.
C6_ResizeSafe ==
  /\ []((\A t \in Threads : pc[t] \notin FullExclusion) => Placement)
  /\ [][RehashKeeps]_vars

\* C6 witness: a thread has rehashed five or more elements into a table of
\* twice the size and still holds full exclusion
C6_Witness ==
  \E t \in Threads :
    /\ pc[t] = "rs_return" /\ capacity_ = 2 * old_size[t]
    /\ Stored(table_) >= 5 /\ Placement

\* C7 (as claimed): in the striped set a Resize call that was triggered by
\* Policy() holding at capacity c rehashes only if the capacity is still c:
\* the others abort, so one threshold crossing gives one doubling.
C7_OneRehashPerCrossing ==
  \A t \in Threads :
    (variant = "striped" /\ pc[t] = "rs_rehash") => capacity_ = policy_cap[t]

\* C8 (as claimed): in the refinable set a rehash executes only when, under
\* the exclusive coordinator lock and every slot lock, Policy() still holds
C8_PolicyRevalidated ==
  \A t \in Threads :
    (variant = "refinable" /\ pc[t] = "rs_rehash")
      => SizeValueExceeds(set_size_, capacity_)


\* coarse-grained set: thread t is in Add(x) and has pushed x
CoAddPushed(t, x) ==
  /\ op[t] = "Add" /\ elem[t] = x
  /\ pc[t] \in {"co_fetch_add", "co_policy", "co_return"}

\* C2 (as claimed): coarse-grained set, x absent at the start and never
\* removed: of all concurrent Add(x) calls at most one inserts x and returns
\* true, the bucket of x holds x at most once, and once no Add(x) is in
\* flight Size() shows one insertion of x.
C2_CoarseAddAtomic ==
  \A x \in ThreadElems :
    (x \notin pre /\ rem_true[x] = 0 /\ ~\E t \in Threads : InRemove(t, x))
    =>
    /\ add_true[x] + Cardinality({t \in Threads : CoAddPushed(t, x)}) <= 1
    /\ Occurrences(table_, x) <= 1
    /\ ((add_true[x] + add_false[x] >= 1 /\ ~\E t \in Threads : InAdd(t, x))
        => add_true[x] = 1)

\* C3 (as claimed): coarse-grained set: the counter is decremented once per
\* Remove that took an element out: it never wraps below zero, and with no
\* call in flight the Remove calls that returned true are no more than the
\* elements that have left the table, so Size() is not below the number of
\* stored elements (of N concurrent Remove(x) for one stored x, one returns
\* true).
C3_CoarseRemoveOnce ==
  /\ set_size_ >= 0
  /\ Quiescent =>
       /\ SumOver(rem_true, ThreadElems)
            <= Cardinality(pre) + SumOver(add_true, ThreadElems)
                 - Stored(table_)
       /\ set_size_ >= Stored(table_)

\* C9 (as claimed): HashSetSequential(4), distinct elements added one after
\* the other: up to 16 elements the table keeps 4 buckets; with the 17th
\* element stored the table has 8 buckets after exactly one resize, holds
\* all 17 elements and each is in bucket hash(e) mod 8.
C9_SeventeenthAddResizes ==
  (variant = "sequential" /\ initial_capacity = 4 /\ fault = "none") =>
    /\ set_size_ <= 16 => Len(table_) = 4
    /\ set_size_ = 17 =>
         /\ Len(table_) = 8 /\ rehashes = 1
         /\ \A e \in 1..17 : InBucket(table_[Index(e, 8)], e)

\* C10 (as claimed): no set object has zero buckets, and no call dies on a
\* modulo or division by a bucket count of 0
C10_ZeroCapacityRejected ==
  /\ Len(table_) >= 1
  /\ fault \notin {"sigfpe", "out_of_bounds"}

\* a call is in flight and every thread that is in a call waits for a stripe
StripeDeadlock ==
  /\ \E t \in Threads : pc[t] # "idle"
  /\ \A t \in Threads : pc[t] # "idle" => St_Blocked(t)

\* C11: deadlock freedom of the striped set (a set with at least one bucket
\* and stripe): no reachable state has every unfinished thread waiting for a
\* stripe lock, a thread never waits for a stripe it holds itself, and under
\* fair scheduling every call that was made returns.
C11_StripedDeadlockFree ==
  /\ [](~StripeDeadlock)
  /\ [](\A t \in Threads :
         (pc[t] = "rs_acquire_all" /\ Len(mutexes_) > 0)
           => mutexes_[nlocked[t] + 1] # t)
  /\ \A t \in Threads :
       (initial_capacity >= 1 /\ pc[t] # "idle") ~> (pc[t] = "idle")

\* C11 witness: two threads are in AcquireAll() at once, one holds the first
\* stripe and the other waits for it
C11_Witness ==
  \E t, u \in Threads :
    /\ variant = "striped" /\ t # u /\ Len(mutexes_) >= 2
    /\ pc[t] = "rs_acquire_all" /\ nlocked[t] = 1
    /\ pc[u] = "rs_acquire_all" /\ nlocked[u] = 0 /\ St_Blocked(u)

\* a call is in flight and every thread that is in a call waits for the
\* coordinator or for a slot
SlotDeadlock ==
  /\ \E t \in Threads : pc[t] # "idle"
  /\ \A t \in Threads : pc[t] # "idle" => Rf_Blocked(t)

\* C12: deadlock freedom of the refinable set (a set with at least one
\* bucket and slot): no reachable state has every unfinished thread waiting
\* for the coordinator or a slot; a thread that requests the coordinator
\* exclusively holds neither the coordinator nor a slot, and a thread in
\* AcquireAll() does not hold the slot it waits for; under fair scheduling
\* every call that was made returns.
C12_RefinableDeadlockFree ==
  /\ [](~SlotDeadlock)
  /\ [](\A t \in Threads :
         /\ pc[t] = "rs_excl" =>
              /\ t \notin locks_mutex_.shared /\ locks_mutex_.excl # t
              /\ \A i \in 1..Len(mutexes_) : mutexes_[i] # t
         /\ (pc[t] = "rs_acquire_all" /\ Len(mutexes_) > 0)
              => mutexes_[nlocked[t] + 1] # t)
  /\ \A t \in Threads :
       (initial_capacity >= 1 /\ pc[t] # "idle") ~> (pc[t] = "idle")

\* C12 witness: a resizer holds the coordinator exclusively and the first of
\* two slots and waits for the second, which an Add that has released the
\* coordinator (and not yet its slot) still holds
C12_Witness ==
  \E t, u \in Threads :
    /\ variant = "refinable" /\ t # u /\ Len(mutexes_) >= 2
    /\ pc[t] = "rs_acquire_all" /\ nlocked[t] = 1 /\ Rf_Blocked(t)
    /\ pc[u] = "unlock" /\ locks_mutex_.excl = t

\* the next statement of thread u reads or writes the bucket array table_
AccessesTable(u) ==
  pc[u] \in {"contains", "push", "erase", "rs_rehash", "rs_install"}

\* refinable set: the next statement of thread u reads the length of the
\* slot array mutexes_, indexes it, iterates over it or grows it
AccessesSlots(u) ==
  variant = "refinable" /\ pc[u] \in {"acquire", "rs_acquire_all", "rs_rehash"}

\* C13: Resize is a barrier in the striped and refinable sets: while a thread
\* holds full exclusion no other thread is at a statement that reads or
\* writes the bucket array or (refinable) the slot array, and only the
\* holder's own steps change the bucket array, the capacity or the length
\* of the slot array.
C13_ResizeBarrier ==
  /\ [](\A t \in Threads :
         pc[t] \in FullExclusion =>
           \A u \in Threads \ {t} : ~AccessesTable(u) /\ ~AccessesSlots(u))
  /\ [][\A t \in Threads :
         (pc[t] \in FullExclusion /\ pc'[t] = pc[t]) =>
           /\ table_' = table_ /\ capacity_' = capacity_
           /\ Len(mutexes_') = Len(mutexes_)]_vars

\* C13 witness: a resizer of a set with two stripes has stored the new
\* capacity and not yet installed the new table, and another thread is in a
\* call, waiting in Acquire()
C13_Witness ==
  \E t, u \in Threads :
    /\ t # u /\ variant = "striped" /\ Len(mutexes_) >= 2
    /\ pc[t] = "rs_install" /\ capacity_ # Len(table_)
    /\ pc[u] = "acquire" /\ St_Blocked(u)

\* what Contains(e) of the sequential set returns for table tbl
SeqContains(tbl, e) == InBucket(tbl[Index(e, Len(tbl))], e)

\* the call that has just returned (op', elem', ret' of the caller) did what
\* the same call does on the mathematical set of the stored elements
SeqCallAsSet ==
  LET S == TableElems(table_)
      T == TableElems(table_')
      e == elem'[1]
      r == ret'[1]
  IN  (variant = "sequential" /\ initial_capacity >= 1 /\ fault' = "none") =>
        /\ op'[1] = "Add" =>
             /\ r = (e \notin S) /\ T = S \cup {e}
             /\ SeqContains(table_', e)
             /\ r => set_size_' = set_size_ + 1
             /\ ~r => (table_' = table_ /\ set_size_' = set_size_)
        /\ op'[1] = "Remove" =>
             /\ r = (e \in S) /\ T = S \ {e}
             /\ ~SeqContains(table_', e)
             /\ r => set_size_' = set_size_ - 1
             /\ ~r => (table_' = table_ /\ set_size_' = set_size_)
        /\ op'[1] = "Contains" =>
             /\ r = (e \in S)
             /\ table_' = table_ /\ set_size_' = set_size_

\* C14: the sequential set built with initial_capacity >= 1 is a
\* mathematical set: each Add/Remove/Contains call returns and changes what
\* the call on the set of stored elements does (resizes included), a false
\* Add or Remove changes nothing, Size() is the number of distinct stored
\* elements, and Contains finds exactly the stored elements.
C14_SequentialIsSet ==
  /\ []((variant = "sequential" /\ initial_capacity >= 1) =>
         /\ set_size_ = Cardinality(TableElems(table_))
         /\ Stored(table_) = Cardinality(TableElems(table_))
         /\ \A e \in Elems : SeqContains(table_, e) = (e \in TableElems(table_)))
  /\ [][SeqCallAsSet]_vars

\* C14 witness: after a resize, a Remove has returned true and has emptied
\* the set
C14_Witness ==
  /\ variant = "sequential" /\ initial_capacity >= 1 /\ rehashes >= 1
  /\ op[1] = "Remove" /\ ret[1] /\ set_size_ = 0
  /\ ~SeqContains(table_, elem[1])

\* the next statement of thread u reads or writes one bucket: that of its
\* element
AccessesBucket(u) == pc[u] \in {"contains", "push", "erase"}

\* the bucket (1-based) thread u is about to access
BucketOf(u) == Index(elem[u], capacity_)

\* the stripe (1-based) that guards bucket b (1-based) of the striped set:
\* stripe (b - 1) mod initial_capacity of the code
StripeOfBucket(b) == ((b - 1) % initial_capacity) + 1

\* C15: striped set: the stripe array keeps initial_capacity mutexes across
\* every resize while the capacity is initial_capacity * 2^k; a thread about
\* to read or write bucket b holds stripe b mod initial_capacity, a thread
\* rehashing holds every stripe; so no two threads are at statements that
\* access the same bucket, and none accesses a bucket during a rehash.
C15_StripePerBucket ==
  variant = "striped" =>
    /\ Len(mutexes_) = initial_capacity
    /\ \E k \in 0..3 : capacity_ = initial_capacity * (2 ^ k)
    /\ \A u \in Threads :
         /\ AccessesBucket(u) =>
              /\ Accessible(elem[u])
              /\ mutexes_[StripeOfBucket(BucketOf(u))] = u
         /\ pc[u] \in {"rs_rehash", "rs_install"} =>
              \A i \in 1..Len(mutexes_) : mutexes_[i] = u
    /\ \A u, v \in Threads :
         (u # v /\ AccessesBucket(u)) =>
           /\ AccessesBucket(v) => BucketOf(u) # BucketOf(v)
           /\ pc[v] \notin {"rs_rehash", "rs_install"}

\* C15 witness: after a resize of a set with two stripes (four buckets, two
\* stripes) two threads are at bucket accesses at once, each holding the
\* stripe of its bucket
C15_Witness ==
  \E u, v \in Threads :
    /\ variant = "striped" /\ u # v
    /\ initial_capacity = 2 /\ capacity_ = 4 /\ Len(mutexes_) = 2
    /\ AccessesBucket(u) /\ AccessesBucket(v)
    /\ mutexes_[StripeOfBucket(BucketOf(u))] = u
    /\ mutexes_[StripeOfBucket(BucketOf(v))] = v

\* the slot (1-based) Acquire(elem) of thread u locks
SlotOf(u) == Index(elem[u], Len(mutexes_))

\* refinable set: a step that changes the capacity or the number of slots
\* doubles both
SlotsGrowWithCapacity ==
  (variant = "refinable"
     /\ (capacity_' # capacity_ \/ Len(mutexes_') # Len(mutexes_)))
    => /\ capacity_' = 2 * capacity_
       /\ Len(mutexes_') = 2 * Len(mutexes_)

\* C16: refinable set: whenever no thread holds the coordinator exclusively
\* the number of slots is the capacity (and the number of buckets); a
\* rehash doubles both in one step; the slot an ordinary call holds is the
\* slot with the index of the bucket it accesses.
C16_SlotsTrackCapacity ==
  /\ []((variant = "refinable" /\ locks_mutex_.excl = 0) =>
         /\ Len(mutexes_) = capacity_ /\ Len(table_) = capacity_
         /\ \A u \in Threads :
              AccessesBucket(u) =>
                /\ SlotOf(u) = BucketOf(u)
                /\ mutexes_[BucketOf(u)] = u)
  /\ [][SlotsGrowWithCapacity]_vars

\* C16 witness: after two rehashes of a set built with one slot, four slots
\* and four buckets, and a call is at a bucket access holding a slot that a
\* rehash added
C16_Witness ==
  \E u \in Threads :
    /\ variant = "refinable" /\ locks_mutex_.excl = 0
    /\ initial_capacity = 1 /\ rehashes = 2
    /\ Len(mutexes_) = 4 /\ capacity_ = 4
    /\ AccessesBucket(u) /\ SlotOf(u) >= 2 /\ mutexes_[SlotOf(u)] = u

\* the bucket array, the capacity, the size counter, the number of locks and
\* the count of rehashes are unchanged by the step
SetUntouched ==
  /\ table_' = table_ /\ capacity_' = capacity_ /\ set_size_' = set_size_
  /\ Len(mutexes_') = Len(mutexes_) /\ rehashes' = rehashes

\* a Resize() that holds full exclusion and finds the capacity changed goes
\* to its return, changing nothing; the return of Resize() releases the
\* locks, changes nothing else and ends the Add call (no retry)
AbortFrame ==
  \A t \in Threads :
    /\ (pc[t] = "rs_check" /\ old_size[t] # capacity_) =>
         /\ SetUntouched /\ mutexes_' = mutexes_ /\ locks_mutex_' = locks_mutex_
         /\ pc'[t] \in {"rs_check", "rs_return"}
    /\ pc[t] = "rs_return" =>
         /\ SetUntouched
         /\ pc'[t] \in {"rs_return", "idle"}

\* C17: striped and refinable sets: a Resize call that, holding full
\* exclusion, finds the capacity different from the value it read on entry
\* returns without changing the bucket array, the capacity, the size
\* counter or the lock array, and the call ends there (no retry).
C17_AbortLeavesState == [][AbortFrame]_vars

\* C17 witness: two Resize calls have passed the capacity check, one rehash
\* has been executed: one of the two calls took the abort path; one call
\* has returned, the other is at its return
C17_Witness ==
  \E t, u \in Threads :
    /\ t # u /\ rehashes = 1
    /\ pc[t] = "rs_return" /\ policy_cap[t] > 0 /\ ops_done[t] = 0
    /\ pc[u] = "idle" /\ policy_cap[u] > 0 /\ ops_done[u] = 1

\* thread t holds no lock of the set: not the global mutex_, no stripe or
\* slot, and the coordinator neither shared nor exclusively
HoldsNothing(t) ==
  /\ mutex_ # t
  /\ \A i \in 1..Len(mutexes_) : mutexes_[i] # t
  /\ t \notin locks_mutex_.shared /\ locks_mutex_.excl # t

\* C18: coarse-grained, striped and refinable sets: a thread that is not in
\* a call (before its first call and after every return: early returns, the
\* Add path through Resize(), the Resize abort path) holds no lock.
C18_LocksReleasedOnReturn ==
  \A t \in Threads : pc[t] = "idle" => HoldsNothing(t)

\* C18 witness: refinable set, every thread has made all its calls; an Add
\* returned early (element present), an Add went through a rehash, and no
\* lock is held
C18_Witness ==
  /\ variant = "refinable" /\ Quiescent /\ rehashes >= 1
  /\ \A t \in Threads : ops_done[t] = MaxOps /\ HoldsNothing(t)
  /\ \E x \in ThreadElems : add_false[x] >= 1
  /\ \A i \in 1..Len(mutexes_) : mutexes_[i] = 0
  /\ locks_mutex_ = [excl |-> 0, shared |-> {}]

\* the slots (1-based) thread t holds
SlotsHeld(t) == {i \in 1..Len(mutexes_) : mutexes_[i] = t}

\* places of Resize() from AcquireAll() on
InAcquireAllOrAfter ==
  {"rs_acquire_all", "rs_check", "rs_rehash", "rs_install", "rs_return"}

\* C19: lock hierarchy of the refinable set: a thread about to request the
\* coordinator (shared or exclusive) holds no slot; outside Resize() a thread
\* holds at most one slot; a thread in Resize() from AcquireAll() on holds
\* the coordinator exclusively and exactly the slots 0 .. n-1 it has locked
\* so far, i.e. it takes them in strictly ascending order.
C19_LockHierarchy ==
  variant = "refinable" =>
    \A t \in Threads :
      /\ pc[t] \in {"lock_shared", "rs_excl"} => SlotsHeld(t) = {}
      /\ pc[t] \notin InAcquireAllOrAfter => Cardinality(SlotsHeld(t)) <= 1
      /\ pc[t] \in InAcquireAllOrAfter =>
           /\ locks_mutex_.excl = t
           /\ SlotsHeld(t) = 1..nlocked[t]
      /\ Cardinality(SlotsHeld(t)) >= 2 => locks_mutex_.excl = t

\* C19 witness: a resizer holds the coordinator exclusively and both slots of
\* a set with two slots, while the other thread is about to request the
\* coordinator shared
C19_Witness ==
  \E t, u \in Threads :
    /\ variant = "refinable" /\ t # u
    /\ pc[t] = "rs_check" /\ SlotsHeld(t) = {1, 2} /\ locks_mutex_.excl = t
    /\ pc[u] = "lock_shared" /\ SlotsHeld(u) = {}

\* only thread t has made calls so far: the others are idle and have made none
OnlyCaller(t) ==
  \A u \in Threads \ {t} : pc[u] = "idle" /\ ops_done[u] = 0

\* C20 (as claimed): coarse-grained set used by one thread: after a Remove(e)
\* that returned true e is gone and nothing else is: every element is stored
\* as often as its history says (1 if present at the start, plus the Adds
\* that returned true, minus the Removes that returned true), so the bucket
\* of e is one shorter, and Size() has gone down by one per such Remove.
C20_CoarseRemoveOnlyElem ==
  \A t \in Threads :
    (variant = "coarse" /\ OnlyCaller(t) /\ pc[t] = "idle" /\ fault = "none")
    =>
    /\ \A x \in HistElems :
         Occurrences(table_, x) =
           (IF x \in pre THEN 1 ELSE 0) + add_true[x] - rem_true[x]
    /\ set_size_ = Cardinality(pre) + SumOver(add_true, ThreadElems)
                                    - SumOver(rem_true, ThreadElems)

====
